---- MODULE Spec2Model ----
(***************************************************************************)
(* Model of rsynx, a delta-based file synchronizer.                        *)
(*                                                                         *)
(*   - checksum primitives            src/src/sync.rs                      *)
(*   - signature builder              src/src/sync.rs                      *)
(*   - local driver (scan + commit)   src/src/local_sync.rs                *)
(*   - network driver (client/server) src/src/network_sync.rs              *)
(*                                                                         *)
(* Files are byte sequences indexed from 0 in the code; Slice gives the    *)
(* half-open range [from, to) of a sequence.  A u32 is kept as the pair    *)
(* <<low 16 bits, high 16 bits>> so that wrapping arithmetic is exact.     *)
(* The SHA-256 digest is modelled as an injective tag of its input (no     *)
(* collisions).  The temporary path (with_extension("tmp")) is a sibling   *)
(* of the destination; tmp_path tells what sits at that path.  The file    *)
(* drivers start with a temporary path distinct from the destination and   *)
(* unoccupied; the directory driver derives it from the entry names.       *)
(* Permission bits and file times are named by their origin (the source,   *)
(* the destination as found, a file just created).                         *)
(***************************************************************************)
EXTENDS Integers, Sequences, FiniteSets, TLC

\* ------------------------------------------------------------- bounds
MaxSrcLen == 5
MaxDstLen == 5
MaxBlock == 4
\* network driver: longest source and longest destination
MaxNetLen == 4
\* rolling-checksum harness: every padding length up to MaxShortPad, the
\* three lengths up to MaxPad, and at most MaxRoll rolls of the window
MaxShortPad == 30
MaxPad == 259
MaxRoll == 3
\* length of a run of high bytes whose b accumulator passes 2^32
WrapLen == 5810
\* local driver: number of consecutive runs of the same sync
MaxRuns == 2
\* directory driver: nesting depth of the trees, number of entries of the
\* source tree and of the destination tree, block size
MaxDepth == 2
MaxSrcEntries == 2
MaxDstEntries == 2
MaxDirBlock == 1
\* raw peer: number of frames it sends after the request, largest number it
\* puts in a frame (also the longest target)
MaxPeerFrames == 2
MaxPeerLen == 2
\* longest source of the runs checked under fairness; destinations and
\* blocks are shorter
MaxLiveLen == 3

\* ------------------------------------------------------------- values
Byte == {0, 1}
HighByte == 255
M16 == 65536

SeqsUpTo(S, n) == UNION {[1..k -> S] : k \in 0..n}
Slice(s, from, to) == SubSeq(s, from + 1, to)
Rep(x, n) == [i \in 1..n |-> x]
\* a slice assignment that lands one byte too far
WriteAt_shifted(buf, at, data) ==
  [i \in 1..Len(buf) |->
     IF i > at + 1 /\ i <= at + 1 + Len(data) THEN data[i - at - 1] ELSE buf[i]]

\* slice assignment  buf[at .. at+Len(data)) := data
WriteAt(buf, at, data) ==
  [i \in 1..Len(buf) |-> IF i > at /\ i <= at + Len(data) THEN data[i - at] ELSE buf[i]]

NoFile == [exists |-> FALSE, bytes |-> <<>>]
FileOf(b) == [exists |-> TRUE, bytes |-> b]
NoResult == [set |-> FALSE, new_bytes |-> 0, reused_bytes |-> 0]
TransferResult(n, r) == [set |-> TRUE, new_bytes |-> n, reused_bytes |-> r]

\* ------------------------------------------------------------- metadata
\* permission bits and the pair of access and modification times, each named
\* by where it comes from
NoMeta == [mode |-> "none", times |-> "none"]
\* of the source file
SrcMeta == [mode |-> "source", times |-> "source"]
\* of the destination as the sync finds it
OldMeta == [mode |-> "old", times |-> "old"]
\* of a file just created: default mode, current time
NewMeta == [mode |-> "default", times |-> "now"]
MetaOf(file) == IF file.exists THEN OldMeta ELSE NoMeta

\* fs::set_permissions(path, src_meta.permissions())
set_permissions(meta) == [meta EXCEPT !.mode = SrcMeta.mode]
\* the times are left as they are
set_file_times_skipped(meta) == meta

\* set_file_times(path, atime, mtime) with the source's times
set_file_times(meta) == [meta EXCEPT !.times = SrcMeta.times]
\* a write through the path: the modification time moves
Touched(meta) == [meta EXCEPT !.times = NewMeta.times]

\* ------------------------------------------------------------- u32
U32(n) == <<n % M16, (n \div M16) % M16>>
\* an addition that stops at u32::MAX
saturating_add(x, y) ==
  LET lo == x[1] + y[1]
      hi == x[2] + y[2] + (lo \div M16)
  IN  IF hi >= M16 THEN <<M16 - 1, M16 - 1>> ELSE <<lo % M16, hi>>

wrapping_add(x, y) ==
  LET lo == x[1] + y[1]
  IN  <<lo % M16, (x[2] + y[2] + (lo \div M16)) % M16>>
wrapping_sub(x, y) ==
  LET lo == x[1] - y[1]
  IN  <<lo % M16, (x[2] - y[2] - (IF lo < 0 THEN 1 ELSE 0)) % M16>>
wrapping_mul(x, y) ==
  LET p0 == x[1] * y[1]
      p1 == x[1] * y[2] + x[2] * y[1] + (p0 \div M16)
  IN  <<p0 % M16, p1 % M16>>

\* ------------------------------------------------------------- checksums
\* the loop  for &byte in data { a = a.wrapping_add(byte); b = b.wrapping_add(a) }
\* over data[lo .. hi), bytes taken left to right; ab is the pair <<a, b>>.
\* The range is halved so that the evaluation depth stays logarithmic; the
\* test on left (always true) has the left half folded before the right one.
RECURSIVE WeakLoop(_, _, _, _)
WeakLoop(data, lo, hi, ab) ==
  IF hi <= lo THEN ab
  ELSE IF hi = lo + 1
  THEN LET a2 == wrapping_add(ab[1], U32(data[hi]))
       IN  <<a2, wrapping_add(ab[2], a2)>>
  ELSE LET mid == (lo + hi) \div 2
           left == WeakLoop(data, lo, mid, ab)
       IN  IF left[1][1] >= 0 THEN WeakLoop(data, mid, hi, left) ELSE left

\* (a & 0xffff) | ((b & 0xffff) << 16)
Pack(a, b) == <<a[1], b[1]>>

calculate_weak_checksum(data) ==
  LET ab == WeakLoop(data, 0, Len(data), <<U32(0), U32(0)>>)
  IN  Pack(ab[1], ab[2])

update_weak_checksum_nolen(old_byte, new_byte, old_sum, len) ==
  LET a_old == <<old_sum[1], 0>>
      b_old == <<old_sum[2], 0>>
      a_new == wrapping_add(wrapping_sub(a_old, U32(old_byte)), U32(new_byte))
      b_new == wrapping_add(wrapping_sub(b_old, U32(old_byte)), a_new)
  IN  Pack(a_new, b_new)

\* the roll with the outgoing and the incoming byte exchanged
update_weak_checksum_exchanged(old_byte, new_byte, old_sum, len) ==
  LET a_old == <<old_sum[1], 0>>
      b_old == <<old_sum[2], 0>>
      a_new == wrapping_add(wrapping_sub(a_old, U32(new_byte)), U32(old_byte))
      b_new == wrapping_add(wrapping_sub(b_old, wrapping_mul(U32(len), U32(new_byte))), a_new)
  IN  Pack(a_new, b_new)

update_weak_checksum(old_byte, new_byte, old_sum, len) ==
  LET a_old == <<old_sum[1], 0>>
      b_old == <<old_sum[2], 0>>
      a_new == wrapping_add(wrapping_sub(a_old, U32(old_byte)), U32(new_byte))
      b_new == wrapping_add(wrapping_sub(b_old, wrapping_mul(U32(len), U32(old_byte))), a_new)
  IN  Pack(a_new, b_new)

calculate_strong_checksum(data) == [sha256 |-> data]

\* ------------------------------------------------------------- signatures
RECURSIVE ChecksumsFrom(_, _, _)
ChecksumsFrom(file, bs, offset) ==
  IF offset < Len(file)
  THEN LET read_size == IF offset + bs > Len(file) THEN Len(file) - offset ELSE bs
           buffer == Slice(file, offset, offset + read_size)
       IN  <<[offset |-> offset, size |-> read_size,
              weak_checksum |-> calculate_weak_checksum(buffer),
              strong_checksum |-> calculate_strong_checksum(buffer)]>>
           \o ChecksumsFrom(file, bs, offset + read_size)
  ELSE <<>>

\* the signature list without its last block
calculate_checksums_droplast(file, bs) ==
  LET all == ChecksumsFrom(file, bs, 0)
  IN  SubSeq(all, 1, Len(all) - 1)

\* every block recorded with size block_size, the last one included
calculate_checksums_fullsize(file, bs) ==
  LET all == ChecksumsFrom(file, bs, 0)
  IN  [i \in 1..Len(all) |-> [all[i] EXCEPT !.size = bs]]

calculate_checksums(file, bs) == ChecksumsFrom(file, bs, 0)

\* weak_lookup.get(&weak): the blocks with that weak checksum, in file order
Candidates(blocks, weak) == SelectSeq(blocks, LAMBDA b : b.weak_checksum = weak)

\* the first weak candidate, taken without the strong confirmation
FindBlock_weakonly(blocks, weak, window) ==
  LET candidates == Candidates(blocks, weak)
  IN  IF candidates = <<>> THEN <<>> ELSE <<candidates[1]>>

\* a candidate is confirmed against the digest of the window cut to the
\* candidate's size (its last bytes)
FindBlock_cutwindow(blocks, weak, window) ==
  LET candidates == Candidates(blocks, weak)
      cut(b) == SubSeq(window, Len(window) - b.size + 1, Len(window))
      hit == SelectSeq(candidates,
                       LAMBDA b : /\ b.size <= Len(window)
                                  /\ b.strong_checksum = calculate_strong_checksum(cut(b)))
  IN  IF hit = <<>> THEN <<>> ELSE <<hit[1]>>

\* candidates.iter().find(|b| b.strong_checksum == strong): <<>> or <<block>>
FindBlock(blocks, weak, window) ==
  LET candidates == Candidates(blocks, weak)
  IN  IF candidates = <<>> THEN <<>>
      ELSE LET strong == calculate_strong_checksum(window)
               hit == SelectSeq(candidates, LAMBDA b : b.strong_checksum = strong)
           IN  IF hit = <<>> THEN <<>> ELSE <<hit[1]>>

SatSub(a, b) == IF a >= b THEN a - b ELSE 0

\* ------------------------------------------------------------- state
VARIABLES
  driver,       \* "local", "network" or "roll": which program runs
  src,          \* bytes of the source file
  dst,          \* file at the destination path
  dst0,         \* the destination before the sync started
  tmp,          \* file at the temporary sibling path
  block_size,
  \* LocalSyncer::sync_file
  lpc, dst_blocks, window, weak, offset, last_match, reused_bytes, lresult,
  writes,       \* history of the slices written into the mmap, in order
  \* NetworkSyncer::sync (client)
  cpc, block_table, pos, unmatched, cwindow, current_weak, instructions, sent, cresult,
  \* NetworkSyncer::serve (server)
  spc, srv_block_size, old_file, sresult,
  \* the connection: everything written so far in each direction, how much
  \* of it the peer has read, and whether the client's end is closed
  c2s, s2c, srv_read, c2s_closed,
  \* rolling checksum harness
  rdata, rn, rk, rweak,
  \* the invocation: kind of the top-level source path, number of the run
  src_kind, run,
  tmp_path,     \* "free": the temporary path is another path than the destination
                \* and holds tmp; "alias": it is the destination path itself;
                \* "dir" / "other": a directory / a special file sits there
  \* LocalSyncer::sync_dir
  stree,        \* source tree: relative path -> node
  dtree,        \* destination tree
  dtree0,       \* the destination tree before the sync started
  delete_extraneous,
  dstack,       \* the frames of the sync_dir calls in progress, innermost last
  dpc, dcall,   \* position of the directory walk, path of the entry in hand
  dresult,
  dlog,         \* history of the entries handled and the removals made
  \* metadata (permission bits, access and modification times)
  preserve_metadata,
  dst_meta,     \* of the file at the destination path
  tmp_meta      \* of the file at the temporary path

localVars == <<lpc, dst_blocks, window, weak, offset, last_match, reused_bytes, lresult,
               writes>>
fileVars == <<src, dst, dst0, tmp, block_size>>
clientVars == <<cpc, block_table, pos, unmatched, cwindow, current_weak, instructions,
                sent, cresult>>
serverVars == <<spc, srv_block_size, old_file, sresult>>
connVars == <<c2s, s2c, srv_read, c2s_closed>>
netVars == <<clientVars, serverVars, connVars>>
rollVars == <<rdata, rn, rk, rweak>>
entryVars == <<src_kind, run, tmp_path>>
metaVars == <<preserve_metadata, dst_meta, tmp_meta>>
dirVars == <<stree, dtree, dtree0, delete_extraneous, dstack, dpc, dcall, dresult, dlog>>
vars == <<driver, fileVars, localVars, netVars, rollVars, metaVars, entryVars, dirVars>>

LocalIdle ==
  /\ lpc = "idle" /\ dst_blocks = <<>> /\ window = <<>> /\ weak = U32(0)
  /\ offset = 0 /\ last_match = 0 /\ reused_bytes = 0 /\ lresult = NoResult
  /\ writes = <<>>

NetIdle ==
  /\ cpc = "idle" /\ block_table = <<>> /\ pos = 0 /\ unmatched = <<>>
  /\ cwindow = <<>> /\ current_weak = U32(0) /\ instructions = <<>> /\ sent = 0
  /\ cresult = NoResult
  /\ spc = "idle" /\ srv_block_size = 1 /\ old_file = NoFile /\ sresult = NoResult
  /\ c2s = <<>> /\ s2c = <<>> /\ srv_read = 0 /\ c2s_closed = FALSE

RollIdle == rdata = <<>> /\ rn = 0 /\ rk = 0 /\ rweak = U32(0)

\* ------------------------------------------------------------- trees
\* entry names: the second is what with_extension("tmp") makes of both
Names == {"a", "a.tmp"}
with_extension_tmp(name) == "a.tmp"
\* relative paths, the root being <<>>
Paths == SeqsUpTo(Names, MaxDepth)
NoNode == [kind |-> "none", bytes |-> <<>>]
DirNode == [kind |-> "dir", bytes |-> <<>>]
\* neither is_file() nor is_dir(): dangling symlink, fifo, socket, device
OtherNode == [kind |-> "other", bytes |-> <<>>]
FileNode(b) == [kind |-> "file", bytes |-> b]
EmptyTree == [p \in Paths |-> NoNode]
Parent(p) == SubSeq(p, 1, Len(p) - 1)
IsPrefix(p, q) == Len(p) <= Len(q) /\ SubSeq(q, 1, Len(p)) = p
\* names of the entries of directory p, as read_dir lists them
Entries(tree, p) ==
  IF Len(p) < MaxDepth /\ tree[p].kind = "dir"
  THEN {n \in Names : tree[Append(p, n)].kind # "none"}
  ELSE {}

DirIdle ==
  /\ stree = EmptyTree /\ dtree = EmptyTree /\ dtree0 = EmptyTree
  /\ delete_extraneous = FALSE /\ dstack = <<>> /\ dpc = "idle" /\ dcall = <<>>
  /\ dresult = NoResult /\ dlog = <<>>

InitFilesWith(maxSrc, maxDst, sizes) ==
  /\ src \in SeqsUpTo(Byte, maxSrc)
  /\ dst \in {NoFile} \cup {FileOf(b) : b \in SeqsUpTo(Byte, maxDst)}
  /\ dst0 = dst
  /\ tmp = NoFile
  /\ block_size \in sizes

InitFiles(maxSrc, maxDst) == InitFilesWith(maxSrc, maxDst, 1..MaxBlock)

\* the source path is a regular file, is missing, or is neither a file nor
\* a directory
InitLocalAny(sizes) ==
  /\ driver = "local"
  /\ InitFilesWith(MaxSrcLen, MaxDstLen, sizes)
  /\ src_kind \in {"file", "none", "other"}
  /\ src_kind # "file" => src = <<>>
  /\ run = 1 /\ tmp_path = "free"
  /\ dst_meta = MetaOf(dst) /\ tmp_meta = NoMeta
  /\ lpc = "sync" /\ dst_blocks = <<>> /\ window = <<>> /\ weak = U32(0)
  /\ offset = 0 /\ last_match = 0 /\ reused_bytes = 0 /\ lresult = NoResult
  /\ writes = <<>>
  /\ NetIdle
  /\ RollIdle
  /\ DirIdle

\* Syncer::new: preserve_metadata is false unless asked for
InitLocalWith(sizes) == InitLocalAny(sizes) /\ preserve_metadata = FALSE
InitLocal == InitLocalWith(1..MaxBlock)
\* with_block_size takes any usize, 0 included
InitAnyBlock == InitLocalWith(0..MaxBlock)
\* with_preserve_metadata(true)
InitMeta == InitLocalAny(1..MaxBlock) /\ preserve_metadata = TRUE

LocalDrivers == {"local", "dir"}

\* LocalSyncer::sync: dispatch on the type of the source path
LocalSync ==
  /\ driver \in LocalDrivers /\ lpc = "sync"
  /\ IF src_kind = "file"
     THEN /\ lpc' = "start"
          /\ UNCHANGED <<dpc, dcall>>
     ELSE IF src_kind = "dir"
     THEN /\ lpc' = "dir"
          /\ dpc' = "enter"
          /\ dcall' = <<>>
     ELSE /\ lpc' = "error"
          /\ UNCHANGED <<dpc, dcall>>
  /\ UNCHANGED <<driver, fileVars, dst_blocks, window, weak, offset, last_match,
                 reused_bytes, lresult, writes, netVars, rollVars, metaVars, entryVars,
                 stree, dtree, dtree0, delete_extraneous, dstack, dresult, dlog>>

\* ------------------------------------------------------------- local driver
\* Syncer::copy_file result (full copy == one literal covering the source)
copy_file_result(s) == TransferResult(Len(s), 0)

\* sync_file up to the scan loop: existence test, signatures, fast path,
\* creation of the temporary file, first window.  With block_size 0 the
\* signature loop over a non-empty destination never advances its offset.
\* Opening the temporary fails when a directory sits at its path and may
\* fail on a special file; mapping an empty temporary fails with the older
\* releases of the mapping library.
LocalSyncFileStart ==
  /\ driver \in LocalDrivers /\ lpc = "start"
  /\ IF ~dst.exists
     THEN /\ lpc' = "copy"
          /\ UNCHANGED <<dst, dst_blocks, window, weak, tmp, dst_meta, tmp_meta>>
     ELSE IF block_size = 0 /\ dst.bytes # <<>>
     THEN /\ lpc' = "hang"
          /\ UNCHANGED <<dst, dst_blocks, window, weak, tmp, dst_meta, tmp_meta>>
     ELSE LET blocks == calculate_checksums(dst.bytes, block_size)
              src_size == Len(src)
              \* create(true).truncate(true): an existing file keeps its mode
              opened == IF tmp_path = "alias" THEN Touched(dst_meta)
                        ELSE IF tmp.exists THEN Touched(tmp_meta) ELSE NewMeta
          IN  /\ dst_blocks' = blocks
              /\ IF src_size < block_size
                 THEN /\ lpc' = "copy"
                      /\ UNCHANGED <<dst, window, weak, tmp, dst_meta, tmp_meta>>
                 ELSE \/ /\ tmp_path \in {"dir", "other"}
                         /\ lpc' = "error"
                         /\ UNCHANGED <<dst, window, weak, tmp, dst_meta, tmp_meta>>
                      \/ /\ tmp_path # "dir"
                         /\ src_size = 0
                         /\ lpc' = "error"
                         /\ tmp' = FileOf(<<>>)
                         /\ tmp_meta' = opened
                         /\ dst' = IF tmp_path = "alias" THEN tmp' ELSE dst
                         /\ dst_meta' = IF tmp_path = "alias" THEN opened ELSE dst_meta
                         /\ UNCHANGED <<window, weak>>
                      \/ /\ tmp_path # "dir"
                         /\ tmp' = FileOf(Rep(0, src_size))
                         /\ tmp_meta' = opened
                         /\ dst' = IF tmp_path = "alias" THEN tmp' ELSE dst
                         /\ dst_meta' = IF tmp_path = "alias" THEN opened ELSE dst_meta
                         /\ window' = Slice(src, 0, block_size)
                         /\ weak' = calculate_weak_checksum(window')
                         /\ lpc' = "scan"
  /\ UNCHANGED <<driver, src, dst0, block_size, offset, last_match, reused_bytes,
                 lresult, writes, netVars, rollVars, preserve_metadata, entryVars, dirVars>>

\* fs::copy opens the destination with create + truncate and gives it the
\* permission bits of the source ...
CopyFileOpen ==
  /\ driver \in LocalDrivers /\ lpc = "copy"
  /\ dst' = FileOf(<<>>)
  /\ dst_meta' = set_permissions(NewMeta)
  /\ lpc' = "copying"
  /\ UNCHANGED <<driver, src, dst0, tmp, block_size, dst_blocks, window, weak,
                 offset, last_match, reused_bytes, lresult, writes, netVars, rollVars,
                 preserve_metadata, tmp_meta, entryVars, dirVars>>

\* ... and then writes the source bytes into it; once the copy is complete
\* copy_file sets the metadata on the destination when preserve_metadata is
\* set, and either call may fail
CopyFileWrite ==
  /\ driver \in LocalDrivers /\ lpc = "copying"
  /\ IF Len(dst.bytes) < Len(src)
     THEN /\ dst' = FileOf(Append(dst.bytes, src[Len(dst.bytes) + 1]))
          /\ UNCHANGED <<lpc, lresult, dst_meta>>
     ELSE /\ UNCHANGED dst
          /\ IF preserve_metadata
             THEN \/ /\ dst_meta' = set_file_times(set_permissions(dst_meta))
                     /\ lpc' = "done"
                     /\ lresult' = copy_file_result(src)
                  \/ /\ dst_meta' \in {dst_meta, set_permissions(dst_meta)}
                     /\ lpc' = "error"
                     /\ UNCHANGED lresult
             ELSE /\ lpc' = "done"
                  /\ lresult' = copy_file_result(src)
                  /\ UNCHANGED dst_meta
  /\ UNCHANGED <<driver, src, dst0, tmp, block_size, dst_blocks, window, weak,
                 offset, last_match, reused_bytes, writes, netVars, rollVars,
                 preserve_metadata, tmp_meta, entryVars, dirVars>>

Literal(at, len) == [kind |-> "literal", at |-> at, len |-> len, from |-> at]
Copied(at, len, from) == [kind |-> "copy", at |-> at, len |-> len, from |-> from]

\* the offset after a match, moved by a single byte as after a slide
offset_after_match_onebyte(off, bs) == off + 1

\* the offset left where it was after a match
offset_after_match_stay(off, bs) == off

\* offset += block_size; last_match = offset
offset_after_match(off, bs) == off + bs

\* one iteration of  while offset + block_size <= src_size
LocalScanStep ==
  /\ driver \in LocalDrivers /\ lpc = "scan"
  /\ LET src_size == Len(src)
         hit == FindBlock(dst_blocks, weak, window)
     IN  IF offset + block_size > src_size
         THEN /\ lpc' = "tail"
              /\ UNCHANGED <<tmp, window, weak, offset, last_match, reused_bytes, writes>>
         ELSE IF hit # <<>>
         THEN LET block == hit[1]
                  unmatched_len == IF offset > last_match THEN offset - last_match ELSE 0
                  m1 == IF offset > last_match
                        THEN WriteAt(tmp.bytes, last_match, Slice(src, last_match, offset))
                        ELSE tmp.bytes
                  w1 == IF offset > last_match
                        THEN Append(writes, Literal(last_match, unmatched_len))
                        ELSE writes
                  \* File::open(dst_path) reads what the path holds now
                  dst_now == IF tmp_path = "alias" THEN m1 ELSE dst.bytes
                  block_data == Slice(dst_now, block.offset, block.offset + block.size)
                  off2 == offset_after_match(offset, block_size)
              IN  IF block.offset + block.size > Len(dst_now)
                  THEN \* read_exact fails at end of file
                       /\ lpc' = "error"
                       /\ tmp' = FileOf(m1)
                       /\ writes' = w1
                       /\ UNCHANGED <<window, weak, offset, last_match, reused_bytes>>
                  ELSE IF block.size # block_size
                  THEN \* copy_from_slice panics on a length mismatch
                       /\ lpc' = "panic"
                       /\ tmp' = FileOf(m1)
                       /\ writes' = w1
                       /\ UNCHANGED <<window, weak, offset, last_match, reused_bytes>>
                  ELSE /\ tmp' = FileOf(WriteAt(m1, offset, block_data))
                       /\ writes' = Append(w1, Copied(offset, block.size, block.offset))
                       /\ reused_bytes' = reused_bytes + block.size
                       /\ offset' = off2
                       /\ last_match' = off2
                       /\ IF off2 + block_size <= src_size
                          THEN /\ window' = Slice(src, off2, off2 + block_size)
                               /\ weak' = calculate_weak_checksum(window')
                               /\ lpc' = "scan"
                          ELSE /\ lpc' = "tail"
                               /\ UNCHANGED <<window, weak>>
         ELSE LET off2 == offset + 1
              IN  /\ offset' = off2
                  /\ UNCHANGED <<tmp, last_match, reused_bytes, writes>>
                  /\ IF off2 + block_size <= src_size
                     THEN IF window = <<>>
                          THEN \* window[0] on an empty window
                               /\ lpc' = "panic"
                               /\ UNCHANGED <<window, weak>>
                          ELSE LET old_byte == window[1]
                                   new_byte == src[off2 + block_size]
                               IN  /\ window' = Append(Tail(window), new_byte)
                                   /\ weak' = update_weak_checksum(old_byte, new_byte, weak,
                                                                   block_size)
                                   /\ lpc' = "scan"
                     ELSE /\ lpc' = "tail"
                          /\ UNCHANGED <<window, weak>>
  /\ dst' = IF tmp_path = "alias" THEN tmp' ELSE dst
  /\ UNCHANGED <<driver, src, dst0, block_size, dst_blocks, lresult, netVars, rollVars, metaVars,
                 entryVars, dirVars>>

\* remainder after the loop, then mmap.flush(), then the metadata of the
\* temporary file when preserve_metadata is set; either call may fail
LocalTail ==
  /\ driver \in LocalDrivers /\ lpc = "tail"
  /\ IF last_match < Len(src)
     THEN /\ tmp' = FileOf(WriteAt(tmp.bytes, last_match, Slice(src, last_match, Len(src))))
          /\ writes' = Append(writes, Literal(last_match, Len(src) - last_match))
     ELSE UNCHANGED <<tmp, writes>>
  /\ dst' = IF tmp_path = "alias" THEN tmp' ELSE dst
  /\ IF preserve_metadata
     THEN \/ /\ tmp_meta' = set_file_times(set_permissions(tmp_meta))
             /\ lpc' = "rename"
          \/ /\ tmp_meta' \in {tmp_meta, set_permissions(tmp_meta)}
             /\ lpc' = "error"
     ELSE /\ lpc' = "rename"
          /\ UNCHANGED tmp_meta
  /\ dst_meta' = IF tmp_path = "alias" THEN tmp_meta' ELSE dst_meta
  /\ UNCHANGED <<driver, src, dst0, block_size, dst_blocks, window, weak,
                 offset, last_match, reused_bytes, lresult, netVars, rollVars,
                 preserve_metadata, entryVars, dirVars>>

\* total_bytes.saturating_sub(reused_bytes) and the returned TransferResult
local_result_total(total_bytes, reused) == TransferResult(total_bytes, reused)

local_result_swapped(total_bytes, reused) ==
  TransferResult(reused, SatSub(total_bytes, reused))

local_result(total_bytes, reused) ==
  TransferResult(SatSub(total_bytes, reused), reused)

\* fs::rename(temp_path, dst_path) and the returned TransferResult
LocalRename ==
  /\ driver \in LocalDrivers /\ lpc = "rename"
  /\ dst' = tmp
  /\ tmp' = IF tmp_path = "alias" THEN tmp ELSE NoFile
  /\ dst_meta' = tmp_meta
  /\ tmp_meta' = IF tmp_path = "alias" THEN tmp_meta ELSE NoMeta
  /\ lresult' = local_result(Len(src), reused_bytes)
  /\ lpc' = "done"
  /\ UNCHANGED <<driver, src, dst0, block_size, dst_blocks, window, weak,
                 offset, last_match, reused_bytes, writes, netVars, rollVars,
                 preserve_metadata, entryVars, dirVars>>

\* the same sync is run once more: source unchanged, destination as the
\* previous run left it
LocalRerun ==
  /\ driver = "local" /\ lpc = "done"
  /\ run < MaxRuns
  /\ run' = run + 1
  /\ dst0' = dst
  /\ lpc' = "sync" /\ dst_blocks' = <<>> /\ window' = <<>> /\ weak' = U32(0)
  /\ offset' = 0 /\ last_match' = 0 /\ reused_bytes' = 0 /\ lresult' = NoResult
  /\ writes' = <<>>
  /\ UNCHANGED <<driver, src, dst, tmp, block_size, netVars, rollVars, metaVars, src_kind,
                 tmp_path, dirVars>>

LocalNext ==
  \/ LocalSync
  \/ LocalRerun
  \/ LocalSyncFileStart
  \/ CopyFileOpen
  \/ CopyFileWrite
  \/ LocalScanStep
  \/ LocalTail
  \/ LocalRename

\* ------------------------------------------------------------- directory driver
\* contents of the regular files of the trees
DirContents == {<<1>>, <<1, 0>>}
NodeKinds == {DirNode, OtherNode} \cup {FileNode(b) : b \in DirContents}
\* sets of at most k non-root paths closed under Parent
PathSets(k) ==
  {S \in SUBSET (Paths \ {<<>>}) :
     Cardinality(S) <= k /\ \A p \in S : Len(p) > 1 => Parent(p) \in S}
\* the trees whose entries are the paths of S; only directories have children
TreesOn(S) ==
  {[p \in Paths |-> IF p = <<>> THEN DirNode ELSE IF p \in S THEN f[p] ELSE NoNode] :
     f \in {g \in [S -> NodeKinds] :
              \A p \in S : (\E c \in S : Len(c) > 1 /\ Parent(c) = p) => g[p] = DirNode}}
Trees(k) == UNION {TreesOn(S) : S \in PathSets(k)}

InitDir ==
  /\ driver = "dir"
  /\ src_kind = "dir" /\ run = 1 /\ tmp_path = "free"
  /\ preserve_metadata = FALSE /\ dst_meta = NoMeta /\ tmp_meta = NoMeta
  /\ src = <<>> /\ dst = NoFile /\ dst0 = NoFile /\ tmp = NoFile
  /\ block_size \in 1..MaxDirBlock
  /\ lpc = "sync" /\ dst_blocks = <<>> /\ window = <<>> /\ weak = U32(0)
  /\ offset = 0 /\ last_match = 0 /\ reused_bytes = 0 /\ lresult = NoResult
  /\ writes = <<>>
  /\ NetIdle
  /\ RollIdle
  /\ stree \in Trees(MaxSrcEntries)
  /\ dtree \in Trees(MaxDstEntries) \cup {EmptyTree}
  /\ dtree0 = dtree
  /\ delete_extraneous \in BOOLEAN
  /\ dstack = <<>> /\ dpc = "idle" /\ dcall = <<>> /\ dresult = NoResult /\ dlog = <<>>

Frame(path, todo) ==
  [path |-> path, todo |-> todo, src_names |-> {}, dtodo |-> {},
   total_bytes |-> 0, total_reused_bytes |-> 0]
Top == dstack[Len(dstack)]
SetTop(f) == [dstack EXCEPT ![Len(dstack)] = f]
\* an event of the walk; res is what sync_file returned for a synced file
Event(op, path) == [op |-> op, path |-> path, res |-> NoResult]
FileEvent(path, result) == [op |-> "file", path |-> path, res |-> result]

dirLocalVars == <<src, dst, dst0, tmp, tmp_path, dst_meta, tmp_meta, lpc, dst_blocks, window, weak, offset,
                  last_match, reused_bytes, lresult, writes>>
dirFrame == <<driver, block_size, netVars, rollVars, preserve_metadata, src_kind, run, stree, dtree0,
              delete_extraneous, dresult>>

\* sync_dir up to its loop: create the destination directory when nothing
\* exists at its path, open the source directory.  exists() follows links:
\* it is false for a dangling link and true for the other special files.
DirEnter ==
  /\ driver = "dir" /\ dpc = "enter"
  /\ LET p == dcall
         parent_ok == p = <<>> \/ dtree[Parent(p)].kind = "dir"
         enter == /\ dstack' = Append(dstack, Frame(p, Entries(stree, p)))
                  /\ dlog' = Append(dlog, Event("enter", p))
                  /\ dpc' = "entries"
         fail == /\ dlog' = Append(dlog, Event("fail", p))
                 /\ dpc' = "error"
                 /\ UNCHANGED <<dstack, dtree>>
     IN  IF dtree[p].kind = "none"
         THEN IF parent_ok
              THEN /\ dtree' = [dtree EXCEPT ![p] = DirNode]
                   /\ enter
              ELSE fail
         ELSE IF dtree[p].kind = "other"
         THEN \/ fail
              \/ enter /\ UNCHANGED dtree
         ELSE enter /\ UNCHANGED dtree
  /\ UNCHANGED <<dirFrame, dirLocalVars, dcall>>

\* what sits at the temporary path of destination entry q
TmpPathOf(tree, q) ==
  LET t == Append(Parent(q), with_extension_tmp(q[Len(q)]))
  IN  IF t = q THEN "alias"
      ELSE IF tree[t].kind \in {"dir", "other"} THEN tree[t].kind
      ELSE "free"
TmpFileOf(tree, q) ==
  LET t == Append(Parent(q), with_extension_tmp(q[Len(q)]))
  IN  IF t # q /\ tree[t].kind = "file" THEN FileOf(tree[t].bytes) ELSE NoFile

\* one iteration of the loop over the source entries, up to the call of
\* sync_file or sync_dir for the entry; read_dir fixes no order
DirEntry ==
  /\ driver = "dir" /\ dpc = "entries"
  /\ Top.todo # {}
  /\ \E n \in Top.todo :
       LET q == Append(Top.path, n)
           f == [Top EXCEPT !.todo = @ \ {n}, !.src_names = @ \cup {n}]
           fail == /\ dlog' = Append(dlog, Event("fail", q))
                   /\ dpc' = "error"
                   /\ UNCHANGED <<dirLocalVars, dcall>>
           call_sync_file(target) ==
                   /\ src' = stree[q].bytes
                   /\ dst' = target
                   /\ dst0' = target
                   /\ tmp' = TmpFileOf(dtree, q)
                   /\ tmp_path' = TmpPathOf(dtree, q)
                   /\ dst_meta' = MetaOf(target)
                   /\ tmp_meta' = MetaOf(TmpFileOf(dtree, q))
                   /\ lpc' = "start" /\ dst_blocks' = <<>> /\ window' = <<>>
                   /\ weak' = U32(0) /\ offset' = 0 /\ last_match' = 0
                   /\ reused_bytes' = 0 /\ lresult' = NoResult /\ writes' = <<>>
                   /\ dcall' = q
                   /\ dpc' = "file"
                   /\ UNCHANGED dlog
       IN  /\ dstack' = SetTop(f)
           /\ IF stree[q].kind = "file"
              THEN IF dtree[q].kind = "dir" \/ dtree[Top.path].kind # "dir"
                   THEN \* reading a directory fails; so does creating a file
                        \* below a path that is no directory
                        fail
                   ELSE IF dtree[q].kind = "other"
                   THEN \/ fail
                        \/ call_sync_file(NoFile)
                   ELSE IF dtree[q].kind = "file"
                   THEN call_sync_file(FileOf(dtree[q].bytes))
                   ELSE call_sync_file(NoFile)
              ELSE IF stree[q].kind = "dir"
              THEN /\ dcall' = q
                   /\ dpc' = "enter"
                   /\ UNCHANGED <<dirLocalVars, dlog>>
              ELSE \* "Skipping unsupported file type"
                   /\ dlog' = Append(dlog, Event("skip", q))
                   /\ UNCHANGED <<dirLocalVars, dcall, dpc>>
  /\ UNCHANGED <<dirFrame, dtree>>

\* the destination tree once sync_file has left entry q: the file at q, and
\* at the temporary path what the run left there (nothing after a rename)
AfterSyncFile(tree, q) ==
  LET t == Append(Parent(q), with_extension_tmp(q[Len(q)]))
      at_q == IF dst.exists THEN FileNode(dst.bytes) ELSE tree[q]
      at_t == IF tmp_path = "free"
              THEN IF tmp.exists THEN FileNode(tmp.bytes) ELSE NoNode
              ELSE IF tmp_path = "other" /\ lpc = "done" /\ writes # <<>>
              THEN NoNode
              ELSE tree[t]
  IN  [r \in Paths |-> IF r = q THEN at_q ELSE IF r = t THEN at_t ELSE tree[r]]

\* sync_file returned Ok: the tallies of the loop body
DirFileReturn ==
  /\ driver = "dir" /\ dpc = "file" /\ lpc = "done"
  /\ dtree' = AfterSyncFile(dtree, dcall)
  /\ dstack' = SetTop([Top EXCEPT
                         !.total_reused_bytes = @ + lresult.reused_bytes,
                         !.total_bytes = @ + Len(src)])
  /\ dlog' = Append(dlog, FileEvent(dcall, lresult))
  /\ lpc' = "dir"
  /\ dpc' = "entries"
  /\ UNCHANGED <<dirFrame, src, dst, dst0, tmp, tmp_path, dst_meta, tmp_meta, dst_blocks,
                 window, weak, offset, last_match, reused_bytes, lresult, writes, dcall>>

\* sync_file returned Err and the loop goes on with the next entry
DirFileError_ignored ==
  /\ driver = "dir" /\ dpc = "file" /\ lpc = "error"
  /\ dtree' = AfterSyncFile(dtree, dcall)
  /\ dlog' = Append(dlog, Event("fail", dcall))
  /\ dpc' = "entries"
  /\ UNCHANGED <<dirFrame, dirLocalVars, dstack, dcall>>

\* sync_file returned Err: the ? operator leaves every sync_dir in progress
DirFileError ==
  /\ driver = "dir" /\ dpc = "file" /\ lpc = "error"
  /\ dtree' = AfterSyncFile(dtree, dcall)
  /\ dlog' = Append(dlog, Event("fail", dcall))
  /\ dpc' = "error"
  /\ UNCHANGED <<dirFrame, dirLocalVars, dstack, dcall>>

\* after the loop: open the destination directory for the removal pass
\* when delete_extraneous is set
DirEndEntries ==
  /\ driver = "dir" /\ dpc = "entries"
  /\ Top.todo = {}
  /\ IF delete_extraneous
     THEN IF dtree[Top.path].kind = "dir"
          THEN /\ dstack' = SetTop([Top EXCEPT !.dtodo = Entries(dtree, Top.path)])
               /\ dpc' = "delete"
               /\ UNCHANGED dlog
          ELSE /\ dlog' = Append(dlog, Event("fail", Top.path))
               /\ dpc' = "error"
               /\ UNCHANGED dstack
     ELSE /\ dpc' = "return"
          /\ UNCHANGED <<dstack, dlog>>
  /\ UNCHANGED <<dirFrame, dirLocalVars, dtree, dcall>>

\* the tree without the entry at q and everything below it
RemoveAll(tree, q) == [r \in Paths |-> IF IsPrefix(q, r) THEN NoNode ELSE tree[r]]

\* one iteration of the loop over the destination entries
DirDelete ==
  /\ driver = "dir" /\ dpc = "delete"
  /\ IF Top.dtodo = {}
     THEN /\ dpc' = "return"
          /\ UNCHANGED <<dstack, dtree, dlog>>
     ELSE \E n \in Top.dtodo :
            LET q == Append(Top.path, n)
            IN  /\ dstack' = SetTop([Top EXCEPT !.dtodo = @ \ {n}])
                /\ UNCHANGED dpc
                /\ IF n \notin Top.src_names /\ dtree[q].kind \in {"file", "dir"}
                   THEN /\ dtree' = RemoveAll(dtree, q)
                        /\ dlog' = Append(dlog, Event("remove", q))
                   ELSE UNCHANGED <<dtree, dlog>>
  /\ UNCHANGED <<dirFrame, dirLocalVars, dcall>>

\* the result with the total left as it is
dir_result_total(total_bytes, total_reused_bytes) ==
  TransferResult(total_bytes, total_reused_bytes)

\* total_bytes.saturating_sub(total_reused_bytes) and the returned TransferResult
dir_result(total_bytes, total_reused_bytes) ==
  TransferResult(SatSub(total_bytes, total_reused_bytes), total_reused_bytes)

\* sync_dir returns Ok: to the loop body of the enclosing sync_dir, or to sync
DirReturn ==
  /\ driver = "dir" /\ dpc = "return"
  /\ LET res == dir_result(Top.total_bytes, Top.total_reused_bytes)
         rest == SubSeq(dstack, 1, Len(dstack) - 1)
     IN  IF rest = <<>>
         THEN /\ dstack' = rest
              /\ dresult' = res
              /\ dpc' = "done"
         ELSE /\ dstack' = [rest EXCEPT ![Len(rest)] =
                              [@ EXCEPT !.total_reused_bytes = @ + res.reused_bytes,
                                        !.total_bytes = @ + res.new_bytes + res.reused_bytes]]
              /\ dpc' = "entries"
              /\ UNCHANGED dresult
  /\ UNCHANGED <<driver, block_size, netVars, rollVars, preserve_metadata, src_kind, run,
                 stree, dtree0, delete_extraneous, dirLocalVars, dtree, dcall, dlog>>

DirNext ==
  \/ LocalSync
  \/ LocalSyncFileStart
  \/ CopyFileOpen
  \/ CopyFileWrite
  \/ LocalScanStep
  \/ LocalTail
  \/ LocalRename
  \/ DirEnter
  \/ DirEntry
  \/ DirFileReturn
  \/ DirFileError
  \/ DirEndEntries
  \/ DirDelete
  \/ DirReturn

\* ------------------------------------------------------------- wire format
\* a framing line: its first word and the remaining words; a DATA frame
\* carries its raw payload right after the line
Line(cmd, args) == [cmd |-> cmd, args |-> args, payload |-> <<>>]
DataFrame(data) == [cmd |-> "DATA", args |-> <<Len(data)>>, payload |-> data]
EofLine == Line("", <<>>)
hex_encode(digest) == [hex |-> digest]
hex_decode(text) == text.hex

Data(bytes) == [kind |-> "Data", data |-> bytes, offset |-> 0, length |-> 0]
Copy(off, len) == [kind |-> "Copy", data |-> <<>>, offset |-> off, length |-> len]

\* writeln!(stream, "BLK {} {} {} {}", offset, size, weak, strong_hex)
BlkLine(block) ==
  Line("BLK", <<block.offset, block.size, block.weak_checksum,
                hex_encode(block.strong_checksum)>>)

\* the signature phase without the closing BLKEND line
SignatureLines_noend(target, bs) ==
  IF target.exists
  THEN LET checksums == calculate_checksums(target.bytes, bs)
       IN  [i \in 1..Len(checksums) |-> BlkLine(checksums[i])]
  ELSE <<Line("NOBLK", <<>>)>>

\* what serve writes in the signature phase for a target file
SignatureLines(target, bs) ==
  IF target.exists
  THEN LET checksums == calculate_checksums(target.bytes, bs)
       IN  [i \in 1..Len(checksums) |-> BlkLine(checksums[i])] \o <<Line("BLKEND", <<>>)>>
  ELSE <<Line("NOBLK", <<>>)>>

\* the loop reading BLK lines until BLKEND; a read at end of stream gives
\* an empty line, which is not a 5-word BLK line
RECURSIVE ReadBlocks(_, _, _)
ReadBlocks(lines, i, table) ==
  LET line == IF i <= Len(lines) THEN lines[i] ELSE EofLine
  IN  IF line = Line("BLKEND", <<>>) THEN [ok |-> TRUE, table |-> table]
      ELSE IF Len(line.args) # 4 THEN [ok |-> FALSE, table |-> table]
      ELSE ReadBlocks(lines, i + 1,
                      Append(table, [offset |-> line.args[1], size |-> line.args[2],
                                     weak |-> line.args[3],
                                     strong |-> hex_decode(line.args[4])]))

\* NOBLK read as the signature of a one-byte zero block at offset 0
ReadSignatures_placeholder(lines) ==
  LET first_line == IF lines = <<>> THEN EofLine ELSE lines[1]
  IN  IF first_line = Line("NOBLK", <<>>)
      THEN [ok |-> TRUE,
            table |-> <<[offset |-> 0, size |-> 1, weak |-> calculate_weak_checksum(<<0>>),
                         strong |-> calculate_strong_checksum(<<0>>)]>>]
      ELSE IF first_line.cmd = "BLK" /\ first_line.args # <<>>
      THEN ReadBlocks(lines, 1, <<>>)
      ELSE [ok |-> FALSE, table |-> <<>>]

\* the client's reading of the server's response into block_table
ReadSignatures(lines) ==
  LET first_line == IF lines = <<>> THEN EofLine ELSE lines[1]
  IN  IF first_line = Line("NOBLK", <<>>) THEN [ok |-> TRUE, table |-> <<>>]
      ELSE IF first_line.cmd = "BLK" /\ first_line.args # <<>>
      THEN ReadBlocks(lines, 1, <<>>)
      ELSE [ok |-> FALSE, table |-> <<>>]

\* the first entry with the weak checksum, the strong one not being compared
ClientFind_weakonly(table, w, win) ==
  LET candidates == SelectSeq(table, LAMBDA e : e.weak = w)
  IN  IF candidates = <<>> THEN <<>> ELSE <<candidates[1]>>

\* an entry is confirmed against the digest of the window cut to the
\* entry's size (its last bytes)
ClientFind_cutwindow(table, w, win) ==
  LET candidates == SelectSeq(table, LAMBDA e : e.weak = w)
      cut(e) == SubSeq(win, Len(win) - e.size + 1, Len(win))
      hit == SelectSeq(candidates,
                       LAMBDA e : /\ e.size <= Len(win)
                                  /\ e.strong = calculate_strong_checksum(cut(e)))
  IN  IF hit = <<>> THEN <<>> ELSE <<hit[1]>>

\* weak_lookup.get(&current_weak) then find on the strong checksum
ClientFind(table, w, win) ==
  LET candidates == SelectSeq(table, LAMBDA e : e.weak = w)
  IN  IF candidates = <<>> THEN <<>>
      ELSE LET current_strong == calculate_strong_checksum(win)
               hit == SelectSeq(candidates, LAMBDA e : e.strong = current_strong)
           IN  IF hit = <<>> THEN <<>> ELSE <<hit[1]>>

\* ------------------------------------------------------------- network client
InitNetworkAny ==
  /\ driver = "network"
  /\ InitFiles(MaxNetLen, MaxNetLen)
  /\ LocalIdle
  /\ cpc = "connect" /\ block_table = <<>> /\ pos = 0 /\ unmatched = <<>>
  /\ cwindow = <<>> /\ current_weak = U32(0) /\ instructions = <<>> /\ sent = 0
  /\ cresult = NoResult
  /\ spc = "listen" /\ old_file = NoFile
  /\ sresult = NoResult
  /\ c2s = <<>> /\ s2c = <<>> /\ srv_read = 0 /\ c2s_closed = FALSE
  /\ RollIdle
  /\ src_kind \in {"file", "dir", "none", "other"}
  /\ src_kind # "file" => src = <<>>
  /\ run = 1 /\ tmp_path = "free"
  /\ preserve_metadata = FALSE /\ dst_meta = MetaOf(dst) /\ tmp_meta = NoMeta
  /\ DirIdle

\* client and server started with the same block size
InitNetwork == InitNetworkAny /\ srv_block_size = block_size

\* serve(port, block_size) started with another block size than the client's,
\* the source being a regular file
InitMixed ==
  /\ InitNetworkAny
  /\ srv_block_size \in 1..MaxBlock
  /\ srv_block_size # block_size
  /\ src_kind = "file"

\* connect and send the FILE line whatever the source path is
ClientSendFile_nocheck ==
  /\ driver = "network" /\ cpc = "connect" /\ spc = "listen"
  /\ c2s' = Append(c2s, Line("FILE", <<"src", "dst", Len(src)>>))
  /\ cpc' = "signatures"
  /\ UNCHANGED <<driver, fileVars, localVars, block_table, pos, unmatched, cwindow,
                 current_weak, instructions, sent, cresult, serverVars, s2c, srv_read,
                 c2s_closed, rollVars, metaVars, entryVars, dirVars>>

\* connect; return an error (dropping the stream) unless the source is a
\* regular file; send  FILE <src_filename> <dst_filename> <filesize>
ClientSendFile ==
  /\ driver = "network" /\ cpc = "connect" /\ spc = "listen"
  /\ IF src_kind # "file"
     THEN /\ cpc' = "error"
          /\ c2s_closed' = TRUE
          /\ UNCHANGED c2s
     ELSE /\ c2s' = Append(c2s, Line("FILE", <<"src", "dst", Len(src)>>))
          /\ cpc' = "signatures"
          /\ UNCHANGED c2s_closed
  /\ UNCHANGED <<driver, fileVars, localVars, block_table, pos, unmatched, cwindow,
                 current_weak, instructions, sent, cresult, serverVars, s2c, srv_read,
                 rollVars, metaVars, entryVars, dirVars>>

\* read the block summary, build the lookup table, open the source and
\* either take the short-file path or load the first window
ClientReadSignatures ==
  /\ driver = "network" /\ cpc = "signatures"
  /\ s2c # <<>>
  /\ LET got == ReadSignatures(s2c)
         file_size == Len(src)
     IN  IF ~got.ok
         THEN /\ cpc' = "error"
              /\ c2s_closed' = TRUE
              /\ UNCHANGED <<block_table, cwindow, current_weak, instructions>>
         ELSE /\ block_table' = got.table
              /\ UNCHANGED c2s_closed
              /\ IF file_size < block_size
                 THEN /\ instructions' = <<Data(src)>>
                      /\ cpc' = "send"
                      /\ UNCHANGED <<cwindow, current_weak>>
                 ELSE /\ cwindow' = Slice(src, 0, block_size)
                      /\ current_weak' = calculate_weak_checksum(cwindow')
                      /\ cpc' = "scan"
                      /\ UNCHANGED instructions
  /\ UNCHANGED <<driver, fileVars, localVars, pos, unmatched, sent, cresult,
                 serverVars, c2s, s2c, srv_read, rollVars, metaVars, entryVars, dirVars>>

\* one iteration of  while pos + block_size <= file_size
ClientScanStep ==
  /\ driver = "network" /\ cpc = "scan"
  /\ LET file_size == Len(src)
         hit == ClientFind(block_table, current_weak, cwindow)
     IN  IF pos + block_size > file_size
         THEN /\ cpc' = "rest"
              /\ UNCHANGED <<pos, unmatched, cwindow, current_weak, instructions>>
         ELSE IF hit # <<>>
         THEN LET blk == hit[1]
                  pos2 == pos + block_size
              IN  /\ instructions' =
                       (IF unmatched # <<>> THEN Append(instructions, Data(unmatched))
                        ELSE instructions) \o <<Copy(blk.offset, blk.size)>>
                  /\ unmatched' = <<>>
                  /\ pos' = pos2
                  /\ IF pos2 + block_size <= file_size
                     THEN /\ cwindow' = Slice(src, pos2, pos2 + block_size)
                          /\ current_weak' = calculate_weak_checksum(cwindow')
                          /\ cpc' = "scan"
                     ELSE /\ cpc' = "rest"
                          /\ UNCHANGED <<cwindow, current_weak>>
         ELSE LET pos2 == pos + 1
              IN  /\ unmatched' = Append(unmatched, cwindow[1])
                  /\ pos' = pos2
                  /\ UNCHANGED instructions
                  /\ IF pos2 + block_size - 1 < file_size
                     THEN LET old_byte == cwindow[1]
                              next_byte == src[pos2 + block_size]
                          IN  /\ cwindow' = Append(Tail(cwindow), next_byte)
                              /\ current_weak' = update_weak_checksum(old_byte, next_byte,
                                                                      current_weak, block_size)
                              /\ cpc' = "scan"
                     ELSE /\ cpc' = "rest"
                          /\ UNCHANGED <<cwindow, current_weak>>
  /\ UNCHANGED <<driver, fileVars, localVars, block_table, sent, cresult, serverVars,
                 connVars, rollVars, metaVars, entryVars, dirVars>>

\* the remainder alone, the pending unmatched bytes being left out
ClientRemainder_nopending ==
  /\ driver = "network" /\ cpc = "rest"
  /\ instructions' =
       IF pos < Len(src) THEN Append(instructions, Data(Slice(src, pos, Len(src))))
       ELSE instructions
  /\ cpc' = "send"
  /\ UNCHANGED <<driver, fileVars, localVars, block_table, pos, unmatched, cwindow,
                 current_weak, sent, cresult, serverVars, connVars, rollVars, metaVars,
                 entryVars, dirVars>>

\* "Add remaining data"
ClientRemainder ==
  /\ driver = "network" /\ cpc = "rest"
  /\ LET file_size == Len(src)
         remainder == Slice(src, pos, file_size)
     IN  instructions' =
           IF pos < file_size
           THEN IF unmatched # <<>>
                THEN Append(instructions, Data(unmatched \o remainder))
                ELSE Append(instructions, Data(remainder))
           ELSE IF unmatched # <<>>
                THEN Append(instructions, Data(unmatched))
                ELSE instructions
  /\ cpc' = "send"
  /\ UNCHANGED <<driver, fileVars, localVars, block_table, pos, unmatched, cwindow,
                 current_weak, sent, cresult, serverVars, connVars, rollVars, metaVars, entryVars, dirVars>>

\* the instruction taken by the send loop after done_count of them were sent,
\* last one first
InstructionAt_reversed(list, done_count) == list[Len(list) - done_count]

\* for ins in instructions: the vector is walked from its first element
InstructionAt(list, done_count) == list[done_count + 1]

\* what the send loop writes for one instruction
InstructionFrame(ins) ==
  IF ins.kind = "Data" THEN DataFrame(ins.data)
  ELSE Line("COPY", <<ins.offset, ins.length>>)

\* for ins in instructions: one DATA or COPY frame
ClientSendInstruction ==
  /\ driver = "network" /\ cpc = "send"
  /\ sent < Len(instructions)
  /\ LET ins == InstructionAt(instructions, sent)
     IN  c2s' = Append(c2s, InstructionFrame(ins))
  /\ sent' = sent + 1
  /\ UNCHANGED <<driver, fileVars, localVars, cpc, block_table, pos, unmatched, cwindow,
                 current_weak, instructions, cresult, serverVars, s2c, srv_read,
                 c2s_closed, rollVars, metaVars, entryVars, dirVars>>

\* DONE, flush, return Ok; the stream is dropped on return
ClientSendDone ==
  /\ driver = "network" /\ cpc = "send"
  /\ sent = Len(instructions)
  /\ c2s' = Append(c2s, Line("DONE", <<>>))
  /\ c2s_closed' = TRUE
  /\ cresult' = TransferResult(Len(src), 0)
  /\ cpc' = "done"
  /\ UNCHANGED <<driver, fileVars, localVars, block_table, pos, unmatched, cwindow,
                 current_weak, instructions, sent, serverVars, s2c, srv_read, rollVars, metaVars, entryVars, dirVars>>

\* the client process is stopped or the connection is lost: while it waits
\* for the signatures, or between two frames of the instruction phase (a stop
\* during the scan is, on the wire, a stop before the first frame)
ClientAbort ==
  /\ driver = "network" /\ cpc \in {"signatures", "send"}
  /\ cpc' = "aborted"
  /\ c2s_closed' = TRUE
  /\ UNCHANGED <<driver, fileVars, localVars, block_table, pos, unmatched, cwindow,
                 current_weak, instructions, sent, cresult, serverVars, c2s, s2c,
                 srv_read, rollVars, metaVars, entryVars, dirVars>>

\* ------------------------------------------------------------- network server
\* accept, read the FILE line (an empty line at end of stream), answer with
\* the signatures of the target
ServeSignatures ==
  /\ driver = "network" /\ spc = "listen"
  /\ \/ srv_read < Len(c2s)
     \/ c2s_closed
  /\ LET at_eof == srv_read = Len(c2s)
         line == IF at_eof THEN EofLine ELSE c2s[srv_read + 1]
     IN  /\ IF line.cmd # "FILE" \/ Len(line.args) < 3
            THEN /\ spc' = "error"
                 /\ UNCHANGED s2c
            ELSE /\ s2c' = s2c \o SignatureLines(dst, srv_block_size)
                 /\ spc' = "open"
         /\ srv_read' = IF at_eof THEN srv_read ELSE srv_read + 1
  /\ UNCHANGED <<driver, fileVars, localVars, clientVars, srv_block_size, old_file,
                 sresult, c2s, c2s_closed, rollVars, metaVars, entryVars, dirVars>>

\* File::create(temp_path); open the old target when it exists
ServeOpen ==
  /\ driver = "network" /\ spc = "open"
  /\ tmp' = FileOf(<<>>)
  /\ tmp_meta' = NewMeta
  /\ old_file' = IF dst.exists THEN dst ELSE NoFile
  /\ spc' = "recv"
  /\ UNCHANGED <<driver, src, dst, dst0, block_size, localVars, clientVars,
                 srv_block_size, sresult, connVars, rollVars, preserve_metadata, dst_meta,
                 entryVars, dirVars>>

\* every token is taken for a number
parse_lenient(n) == TRUE

\* parts.next()?.parse::<usize>() / ::<u64>(): a token that is no unsigned
\* number (written here as a negative one) is an error
parse(n) == n >= 0

\* one turn of the receive loop: a line, or end of stream
ServeReceive ==
  /\ driver = "network" /\ spc = "recv"
  /\ \/ srv_read < Len(c2s)
     \/ c2s_closed
  /\ IF srv_read = Len(c2s)
     THEN \* read_line returned 0: break
          /\ spc' = "commit"
          /\ UNCHANGED <<tmp, srv_read>>
     ELSE LET line == c2s[srv_read + 1]
          IN  /\ srv_read' = srv_read + 1
              /\ IF line.cmd = "DONE" /\ line.args = <<>>
                 THEN /\ spc' = "commit"
                      /\ UNCHANGED tmp
                 ELSE IF line.cmd = "DATA"
                 THEN IF line.args = <<>> \/ ~parse(line.args[1])
                         \/ Len(line.payload) < line.args[1]
                      THEN /\ spc' = "error"
                           /\ UNCHANGED tmp
                      ELSE /\ tmp' = FileOf(tmp.bytes \o SubSeq(line.payload, 1, line.args[1]))
                           /\ UNCHANGED spc
                 ELSE IF line.cmd = "COPY"
                 THEN IF Len(line.args) < 2 \/ ~parse(line.args[1]) \/ ~parse(line.args[2])
                         \/ ~old_file.exists
                      THEN /\ spc' = "error"
                           /\ UNCHANGED tmp
                      ELSE LET off == line.args[1]
                               length == line.args[2]
                           IN  IF off + length > Len(old_file.bytes)
                               THEN \* read_exact fails at end of file
                                    /\ spc' = "error"
                                    /\ UNCHANGED tmp
                               ELSE /\ tmp' = FileOf(tmp.bytes \o
                                                     Slice(old_file.bytes, off, off + length))
                                    /\ UNCHANGED spc
                 ELSE /\ spc' = "error"
                      /\ UNCHANGED tmp
  /\ UNCHANGED <<driver, src, dst, dst0, block_size, localVars, clientVars,
                 srv_block_size, old_file, sresult, c2s, s2c, c2s_closed, rollVars, metaVars, entryVars, dirVars>>

\* flush, measure the temporary, rename it over the target
ServeCommit ==
  /\ driver = "network" /\ spc = "commit"
  /\ LET total_bytes == Len(tmp.bytes)
     IN  sresult' = TransferResult(total_bytes, 0)
  /\ dst' = tmp
  /\ tmp' = NoFile
  /\ dst_meta' = tmp_meta
  /\ tmp_meta' = NoMeta
  /\ spc' = "done"
  /\ UNCHANGED <<driver, src, dst0, block_size, localVars, clientVars, srv_block_size,
                 old_file, connVars, rollVars, preserve_metadata, entryVars, dirVars>>

NetworkNext ==
  \/ ClientSendFile
  \/ ClientReadSignatures
  \/ ClientScanStep
  \/ ClientRemainder
  \/ ClientSendInstruction
  \/ ClientSendDone
  \/ ClientAbort
  \/ ServeSignatures
  \/ ServeOpen
  \/ ServeReceive
  \/ ServeCommit

\* ------------------------------------------------------------- raw peer
\* serve facing a peer that sends, after a well-formed FILE line, any frames
\* it likes.  The server's view depends on the sequence of frames only, so
\* the peer writes a frame once the previous one has been read.
PeerNumbers == {-1, 0, 1, MaxPeerLen}
PeerFrames ==
  {Line("DONE", <<>>), Line("DONE", <<0>>), Line("", <<>>), Line("PUSH", <<1>>),
   Line("DATA", <<>>), Line("DATA", <<-1>>), Line("COPY", <<>>)}
  \cup {DataFrame(Rep(1, n)) : n \in 0..1}
  \cup {[cmd |-> "DATA", args |-> <<MaxPeerLen>>, payload |-> <<1>>]}
  \cup {Line("COPY", <<o>>) : o \in PeerNumbers}
  \cup {Line("COPY", <<o, l>>) : o \in PeerNumbers, l \in PeerNumbers}
\* the stream ends inside the payload of the frame
ShortPayload(f) ==
  f.cmd = "DATA" /\ f.args # <<>> /\ Len(f.payload) < f.args[1]

InitPeer ==
  /\ driver = "network"
  /\ src = <<>>
  /\ dst \in {NoFile} \cup {FileOf(b) : b \in SeqsUpTo(Byte, MaxPeerLen)}
  /\ dst0 = dst
  /\ tmp = NoFile
  /\ block_size = 1
  /\ LocalIdle
  /\ cpc = "peer" /\ block_table = <<>> /\ pos = 0 /\ unmatched = <<>>
  /\ cwindow = <<>> /\ current_weak = U32(0) /\ instructions = <<>> /\ sent = 0
  /\ cresult = NoResult
  /\ spc = "listen" /\ srv_block_size = block_size /\ old_file = NoFile
  /\ sresult = NoResult
  /\ c2s = <<>> /\ s2c = <<>> /\ srv_read = 0 /\ c2s_closed = FALSE
  /\ RollIdle
  /\ src_kind = "file" /\ run = 1 /\ tmp_path = "free"
  /\ preserve_metadata = FALSE /\ dst_meta = MetaOf(dst) /\ tmp_meta = NoMeta
  /\ DirIdle

PeerSend ==
  /\ driver = "network" /\ cpc = "peer"
  /\ ~c2s_closed /\ srv_read = Len(c2s)
  /\ spc \in {"listen", "open", "recv"}
  /\ Len(c2s) <= MaxPeerFrames
  /\ IF c2s = <<>>
     THEN /\ c2s' = <<Line("FILE", <<"src", "dst", 0>>)>>
          /\ UNCHANGED c2s_closed
     ELSE \E f \in PeerFrames :
            /\ c2s' = Append(c2s, f)
            /\ c2s_closed' = ShortPayload(f)
  /\ UNCHANGED <<driver, fileVars, localVars, clientVars, serverVars, s2c, srv_read,
                 rollVars, metaVars, entryVars, dirVars>>

PeerClose ==
  /\ driver = "network" /\ cpc = "peer"
  /\ ~c2s_closed /\ c2s # <<>>
  /\ c2s_closed' = TRUE
  /\ UNCHANGED <<driver, fileVars, localVars, clientVars, serverVars, c2s, s2c, srv_read,
                 rollVars, metaVars, entryVars, dirVars>>

PeerNext ==
  \/ PeerSend
  \/ PeerClose
  \/ ServeSignatures
  \/ ServeOpen
  \/ ServeReceive
  \/ ServeCommit

\* ------------------------------------------------------------- rolling harness
\* data = a run of high bytes followed by a short suffix, or one long run
\* of high bytes; the window is rolled over it one byte at a time, as the
\* scan loops do.  The empty data has the empty window only.
PadLens == (0..MaxShortPad) \cup ((MaxPad - 2)..MaxPad)
RollData ==
  {Rep(HighByte, m) \o s : m \in PadLens, s \in SeqsUpTo({0, 1, HighByte}, 2)}
  \cup {Rep(HighByte, WrapLen)}

InitRoll ==
  /\ driver = "roll"
  /\ src = <<>> /\ dst = NoFile /\ dst0 = NoFile /\ tmp = NoFile /\ block_size = 1
  /\ LocalIdle
  /\ NetIdle
  /\ rdata \in RollData
  /\ rn \in (IF rdata = <<>> THEN {0} ELSE 1..Len(rdata))
  /\ rn + MaxRoll >= Len(rdata)
  /\ rk = 0
  /\ rweak = calculate_weak_checksum(Slice(rdata, 0, rn))
  /\ src_kind = "file" /\ run = 1 /\ tmp_path = "free"
  /\ preserve_metadata = FALSE /\ dst_meta = NoMeta /\ tmp_meta = NoMeta
  /\ DirIdle

RollStep ==
  /\ driver = "roll"
  /\ rk + rn < Len(rdata)
  /\ rweak' = update_weak_checksum(rdata[rk + 1], rdata[rk + rn + 1], rweak, rn)
  /\ rk' = rk + 1
  /\ UNCHANGED <<driver, fileVars, localVars, netVars, rdata, rn, metaVars, entryVars,
                 dirVars>>

Init == InitLocal \/ InitNetwork \/ InitDir
Next == LocalNext \/ NetworkNext \/ DirNext
Spec == Init /\ [][Next]_vars

SpecLocal == InitLocal /\ [][LocalNext]_vars
SpecNetwork == InitNetwork /\ [][NetworkNext]_vars

SpecRoll == InitRoll /\ [][RollStep]_vars

SpecDir == InitDir /\ [][DirNext]_vars

SpecAnyBlock == InitAnyBlock /\ [][LocalNext]_vars

SpecMeta == InitMeta /\ [][LocalNext]_vars

SpecPeer == InitPeer /\ [][PeerNext]_vars

SpecMixed == InitMixed /\ [][NetworkNext]_vars

\* the single-file drivers with their loops running to completion: a thread
\* that is inside sync_file, sync or serve keeps executing, so a loop
\* iteration that is enabled is eventually taken
InitLive ==
  /\ InitLocal \/ InitNetwork
  /\ Len(src) <= MaxLiveLen
  /\ Len(dst.bytes) < MaxLiveLen /\ block_size < MaxLiveLen
LiveNext == LocalNext \/ NetworkNext
LoopFairness ==
  /\ WF_vars(LocalSyncFileStart)
  /\ WF_vars(LocalScanStep)
  /\ WF_vars(ClientScanStep)
SpecLive == InitLive /\ [][LiveNext]_vars /\ LoopFairness

\* ------------------------------------------------------------- properties
FullBlocks == block_size * (Len(src) \div block_size)
TailLen == Len(src) % block_size
LocalDone == driver = "local" /\ lpc = "done"

C2_TargetNeverPartial ==
  driver = "local" => (dst = dst0 \/ (dst.exists /\ dst.bytes = src))

\* C3: every completed file sync returns new_bytes + reused_bytes = |S|.
C3_CountersSumToSize ==
  /\ LocalDone => (lresult.set /\ lresult.new_bytes + lresult.reused_bytes = Len(src))
  /\ (driver = "network" /\ cpc = "done")
       => (cresult.set /\ cresult.new_bytes + cresult.reused_bytes = Len(src))

\* a completed local delta run with reuse, and a completed client run
C3_Witness ==
  \/ LocalDone /\ lresult.reused_bytes > 0 /\ lresult.new_bytes > 0
  \/ driver = "network" /\ cpc = "done" /\ Len(src) > 0

\* C4 as stated: with a reference identical to the source the sync reports
\* reused_bytes = |S| and new_bytes = 0 and writes no literal.
C4_IdenticalAllReused ==
  (LocalDone /\ dst0.exists /\ dst0.bytes = src)
    => /\ lresult.reused_bytes = Len(src)
       /\ lresult.new_bytes = 0
       /\ \A i \in 1..Len(writes) : writes[i].kind = "copy"

\* C4 amended: with a reference identical to the source of at least
\* block_size bytes every full block is copied and only the tail shorter
\* than block_size is written as a literal: reused_bytes = block_size *
\* (|S| div block_size), new_bytes = |S| mod block_size.  A source shorter
\* than block_size is copied whole and nothing is reused.
C4_IdenticalFullBlocksReused ==
  (LocalDone /\ dst0.exists /\ dst0.bytes = src)
    => IF Len(src) >= block_size
       THEN /\ lresult.reused_bytes = FullBlocks
            /\ lresult.new_bytes = TailLen
            /\ \A i \in 1..Len(writes) :
                 \/ writes[i].kind = "copy" /\ writes[i].len = block_size
                                            /\ writes[i].at + block_size <= FullBlocks
                 \/ writes[i].kind = "literal" /\ writes[i].at = FullBlocks
                                               /\ writes[i].len = TailLen /\ TailLen > 0
            /\ Len(writes) = (Len(src) \div block_size) + (IF TailLen > 0 THEN 1 ELSE 0)
       ELSE /\ reused_bytes = 0
            /\ writes = <<>>
            /\ dst.bytes = src

\* identical files of two full blocks and a short tail, synced to the end
C4_Witness ==
  /\ LocalDone /\ dst0.exists /\ dst0.bytes = src
  /\ Len(src) >= 2 * block_size /\ TailLen > 0 /\ block_size > 1

\* C5: with an empty or absent reference a completed sync reports
\* reused_bytes = 0 and new_bytes = |S| and the destination equals the source.
C5_EmptyReferenceAllNew ==
  (LocalDone /\ (~dst0.exists \/ dst0.bytes = <<>>))
    => /\ lresult.reused_bytes = 0
       /\ lresult.new_bytes = Len(src)
       /\ dst.exists /\ dst.bytes = src

\* an existing empty reference taken through the scan loop to the end
C5_Witness ==
  /\ LocalDone /\ dst0.exists /\ dst0.bytes = <<>>
  /\ Len(src) > block_size /\ writes # <<>>

\* C6: rolling the weak checksum of data[k .. k+n) by one byte gives the
\* from-scratch weak checksum of data[k+1 .. k+n+1), wrap-around included.
C6_RollingIdentity ==
  driver = "roll" => rweak = calculate_weak_checksum(Slice(rdata, rk, rk + rn))

\* a rolled window of high bytes whose byte sum exceeds 16 bits
C6_Witness ==
  /\ driver = "roll" /\ rk >= 1
  /\ rn * HighByte >= M16
  /\ \A i \in 1..rn : rdata[rk + i] = HighByte

\* C7: one client run against one server run ends with the server's target
\* byte-identical to the client's source, whatever the destination was.
C7_NetworkRoundTrip ==
  (driver = "network" /\ spc = "done" /\ cpc \in {"done", "error"})
    => (dst.exists /\ dst.bytes = src)

\* C8: the server renames the temporary over the target only after it has
\* read a DONE line; otherwise the target keeps its pre-sync bytes.
C8_RenameOnlyAfterDone ==
  (driver = "network" /\ (spc = "done" \/ dst # dst0))
    => \E i \in 1..srv_read : c2s[i].cmd = "DONE"

\* the server's output is n BLK lines describing the consecutive blocks of the
\* pre-sync destination, followed by BLKEND
C9_Expected(n) ==
  /\ Len(s2c) = n + 1
  /\ s2c[n + 1] = Line("BLKEND", <<>>)
  /\ \A i \in 1..n :
       LET off == (i - 1) * srv_block_size
           size == IF off + srv_block_size > Len(dst0.bytes)
                   THEN Len(dst0.bytes) - off ELSE srv_block_size
       IN  /\ s2c[i].cmd = "BLK"
           /\ s2c[i].payload = <<>>
           /\ Len(s2c[i].args) = 4
           /\ s2c[i].args[1] = off
           /\ s2c[i].args[2] = size
           /\ s2c[i].args[3] = calculate_weak_checksum(Slice(dst0.bytes, off, off + size))
           /\ s2c[i].args[4] =
                hex_encode(calculate_strong_checksum(Slice(dst0.bytes, off, off + size)))

\* C9: in the signature phase the server sends one BLK line per block of the
\* existing destination, in increasing offset order, then one BLKEND, or the
\* single line NOBLK when the destination is absent, and nothing else
\* (nothing at all before the request is read, or when none arrives).
C9_SignaturePhase ==
  driver = "network" =>
    IF spc = "listen" \/ (spc = "error" /\ srv_read = 0) THEN s2c = <<>>
    ELSE IF dst0.exists
         THEN C9_Expected((Len(dst0.bytes) + srv_block_size - 1) \div srv_block_size)
         ELSE s2c = <<Line("NOBLK", <<>>)>>

\* the server is receiving instructions after a signature phase of several blocks
C9_Witness ==
  /\ driver = "network" /\ spc = "recv" /\ srv_read >= 2
  /\ Len(s2c) >= 3
  /\ Len(dst0.bytes) % srv_block_size # 0

\* C10: a client that received NOBLK sends only DATA frames, so the server
\* never fails on a COPY without an old file.
C10_NoCopyAfterNoblk ==
  (driver = "network" /\ s2c = <<Line("NOBLK", <<>>)>>)
    => /\ \A i \in 1..Len(instructions) : instructions[i].kind = "Data"
       /\ \A i \in 1..Len(c2s) : c2s[i].cmd # "COPY"
       /\ spc # "error"

\* after NOBLK the client scanned a source of at least one window and the
\* server applied its frames
C10_Witness ==
  /\ driver = "network" /\ s2c = <<Line("NOBLK", <<>>)>>
  /\ cpc = "done" /\ spc = "done"
  /\ Len(src) >= block_size /\ Len(instructions) >= 1

\* length and bytes an instruction contributes to the rebuilt file, and the
\* source offset at which the i-th instruction starts
InsLen(ins) == IF ins.kind = "Data" THEN Len(ins.data) ELSE ins.length
InsBytes(ins) ==
  IF ins.kind = "Data" THEN ins.data
  ELSE Slice(dst0.bytes, ins.offset, ins.offset + ins.length)
RECURSIVE InsStart(_)
InsStart(i) == IF i <= 1 THEN 0 ELSE InsStart(i - 1) + InsLen(instructions[i - 1])
\* number of DATA/COPY frames the server has read
AppliedFrames == Cardinality({i \in 1..srv_read : c2s[i].cmd \in {"DATA", "COPY"}})
ServerOutput == IF spc = "done" THEN dst.bytes ELSE tmp.bytes

\* C11: the frames on the wire are the scanner's instructions in their order,
\* followed by exactly one DONE; the server applies every frame it reads (it
\* fails only when no request reached it), and
\* before it applies the i-th one its output is the source up to the offset
\* the i-th instruction rebuilds.
C11_InstructionOrder ==
  driver = "network" =>
    /\ Len(c2s) <= sent + 2
    /\ \A i \in 1..Len(c2s) :
         /\ (i = 1) => c2s[i].cmd = "FILE"
         /\ (i >= 2 /\ i <= sent + 1) => c2s[i] = InstructionFrame(instructions[i - 1])
         /\ (i = sent + 2) => /\ c2s[i] = Line("DONE", <<>>)
                              /\ sent = Len(instructions)
    /\ \A i \in 1..Len(instructions) :
         InsBytes(instructions[i]) = Slice(src, InsStart(i), InsStart(i + 1))
    /\ spc = "error" => srv_read = 0
    /\ spc \in {"recv", "commit", "done"} =>
         /\ AppliedFrames <= sent
         /\ ServerOutput = Slice(src, 0, InsStart(AppliedFrames + 1))

\* a finished run whose instruction list mixes literals and copies
C11_Witness ==
  /\ driver = "network" /\ cpc = "done" /\ spc = "done"
  /\ Len(instructions) >= 3 /\ AppliedFrames = Len(instructions)
  /\ \E i, j \in 1..Len(instructions) :
       /\ i < j
       /\ instructions[i].kind = "Data" /\ instructions[i].data # <<>>
       /\ instructions[j].kind = "Copy"

C13_EmptySourceNoInstruction ==
  /\ (LocalDone /\ src = <<>>)
       => (writes = <<>> /\ lresult = TransferResult(0, 0))
  /\ (driver = "network" /\ src = <<>>)
       => /\ instructions = <<>>
          /\ \A i \in 1..Len(c2s) : c2s[i].cmd \notin {"DATA", "COPY"}
          /\ cpc = "done" => cresult = TransferResult(0, 0)

\* C14: when 0 < |S| < block_size, whatever the reference, the local driver
\* copies the whole source and reuses nothing, and the network client sends
\* exactly one DATA frame carrying the whole source, then DONE.
C14_FastPath ==
  /\ (LocalDone /\ 0 < Len(src) /\ Len(src) < block_size)
       => /\ \A i \in 1..Len(writes) : writes[i].kind # "copy"
          /\ lresult.reused_bytes = 0
          /\ dst = FileOf(src)
  /\ (driver = "network" /\ 0 < Len(src) /\ Len(src) < block_size
                         /\ cpc \in {"done", "error"})
       => c2s = <<Line("FILE", <<"src", "dst", Len(src)>>), DataFrame(src),
                  Line("DONE", <<>>)>>

DirDone == driver = "dir" /\ dpc = "done"

\* C15: after a successful directory sync every regular file of the source
\* tree, at any depth and under any name, is a regular file with the same
\* bytes at the same relative path of the destination tree, and every source
\* directory missing from the destination has been created.
C15_DirSyncCopiesFiles ==
  DirDone =>
    \A p \in Paths :
      /\ stree[p].kind = "file" => dtree[p] = stree[p]
      /\ (stree[p].kind = "dir" /\ dtree0[p].kind = "none") => dtree[p].kind = "dir"

\* C16: after a successful directory sync with delete_extraneous set, every
\* entry left in a destination directory that was synced bears a name that
\* the corresponding source directory has.
C16_ExtraneousRemoved ==
  (DirDone /\ delete_extraneous) =>
    \A q \in Paths \ {<<>>} :
      (stree[Parent(q)].kind = "dir" /\ dtree[q].kind # "none") => stree[q].kind # "none"

\* C17: with delete_extraneous unset a directory sync removes nothing: every
\* destination entry at a path the source tree does not have is still there
\* with its content, during the sync and after it.
C17_NothingRemoved ==
  (driver = "dir" /\ ~delete_extraneous) =>
    \A q \in Paths \ {<<>>} :
      (dtree0[q].kind # "none" /\ stree[q].kind = "none") => dtree[q] = dtree0[q]

\* C18: a sync configured with block_size = 0 is rejected with an error: it
\* never modifies the target, never completes, never spins in the signature
\* builder and never panics in the scanner.
C18_ZeroBlockRejected ==
  (driver = "local" /\ src_kind = "file" /\ block_size = 0)
    => /\ dst = dst0
       /\ lpc \notin {"hang", "panic", "done"}

\* C19: in a directory sync the first failure ends the sync with an error:
\* it is the last thing the walk does (no entry is handled and nothing is
\* removed after it), no result is returned, and no removal pass has run in
\* a directory whose sync was still in progress.  An entry of unsupported
\* type is skipped and is never the failure.
C19_FirstFailureAborts ==
  driver = "dir" =>
    /\ \A i \in 1..Len(dlog) :
         /\ dlog[i].op = "fail" => (i = Len(dlog) /\ dpc = "error" /\ ~dresult.set)
         /\ dlog[i].op = "skip" => stree[dlog[i].path].kind = "other"
         /\ dlog[i].op \in {"fail", "file"} => stree[dlog[i].path].kind # "other"
    /\ dpc = "error" =>
         /\ dlog # <<>> /\ dlog[Len(dlog)].op = "fail"
         /\ \A k \in 1..Len(dstack) :
              /\ dstack[k].dtodo = {}
              /\ \A i \in 1..Len(dlog) :
                   dlog[i].op = "remove" => Parent(dlog[i].path) # dstack[k].path

\* sync_file failed on an entry while its directory still had an entry to
\* handle and a removal pass to run
C19_Witness ==
  /\ driver = "dir" /\ dpc = "error" /\ lpc = "error"
  /\ delete_extraneous
  /\ dstack # <<>> /\ Top.todo # {}

\* C20: a top-level source that is missing or is neither a regular file nor
\* a directory makes the local sync return an error with the destination
\* neither created nor modified; the network client returns an error for
\* every source that is no regular file and sends no FILE request.
C20_BadSourceRejected ==
  /\ (driver = "local" /\ src_kind \notin {"file", "dir"})
       => /\ lpc \in {"sync", "error"}
          /\ ~lresult.set
          /\ dst = dst0 /\ tmp = NoFile
  /\ (driver = "network" /\ src_kind # "file")
       => /\ cpc \in {"connect", "error"}
          /\ ~cresult.set
          /\ c2s = <<>>
          /\ dst = dst0 /\ tmp = NoFile

\* the client gave up on a directory source and the server, left without a
\* request, gave up too, the target being an existing file
C20_Witness ==
  /\ driver = "network" /\ src_kind = "dir"
  /\ cpc = "error" /\ spc = "error"
  /\ dst0.exists /\ dst0.bytes # <<>>

\* sum of the lengths announced by the frames of kind cmd among the first n
\* frames the client wrote
RECURSIVE FrameBytes(_, _)
FrameBytes(cmd, n) ==
  IF n = 0 THEN 0
  ELSE FrameBytes(cmd, n - 1)
       + (IF c2s[n].cmd = cmd
          THEN (IF cmd = "COPY" THEN c2s[n].args[2] ELSE c2s[n].args[1])
          ELSE 0)

\* C21: the client's returned reused_bytes is the sum of the lengths of the
\* COPY frames it sent and its new_bytes the sum of the lengths of its DATA
\* frames; the server's returned result reports the same two values.
C21_NetworkCounters ==
  /\ (driver = "network" /\ cpc = "done")
       => /\ cresult.reused_bytes = FrameBytes("COPY", Len(c2s))
          /\ cresult.new_bytes = FrameBytes("DATA", Len(c2s))
  /\ (driver = "network" /\ cpc = "done" /\ spc = "done")
       => /\ sresult.reused_bytes = cresult.reused_bytes
          /\ sresult.new_bytes = cresult.new_bytes

\* sums over the files synced so far, in the order of the walk: what
\* sync_file reported as reused, and the sizes of the source files
RECURSIVE LogReused(_)
LogReused(n) ==
  IF n = 0 THEN 0
  ELSE LogReused(n - 1) + (IF dlog[n].op = "file" THEN dlog[n].res.reused_bytes ELSE 0)
RECURSIVE LogSizes(_)
LogSizes(n) ==
  IF n = 0 THEN 0
  ELSE LogSizes(n - 1) + (IF dlog[n].op = "file" THEN Len(stree[dlog[n].path].bytes) ELSE 0)

\* C22: the result of a directory sync has reused_bytes equal to the sum of
\* the reused_bytes of all regular files synced in the tree and new_bytes +
\* reused_bytes equal to the sum of their sizes; entries of unsupported type
\* add nothing to either.
C22_DirTallies ==
  DirDone =>
    /\ dresult.set
    /\ dresult.reused_bytes = LogReused(Len(dlog))
    /\ dresult.new_bytes + dresult.reused_bytes = LogSizes(Len(dlog))
    /\ \A p \in Paths \ {<<>>} :
         (stree[p].kind = "file" /\ stree[Parent(p)].kind = "dir")
           => \E i \in 1..Len(dlog) : dlog[i] = FileEvent(p, dlog[i].res)

\* a file below a subdirectory was rebuilt partly from the destination's
\* bytes and partly from new ones
C22_Witness ==
  /\ DirDone
  /\ dresult.reused_bytes > 0 /\ dresult.new_bytes > 0
  /\ \E i \in 1..Len(dlog) :
       dlog[i].op = "file" /\ Len(dlog[i].path) = 2 /\ dlog[i].res.reused_bytes > 0

RECURSIVE InsConcat(_)
InsConcat(n) == IF n = 0 THEN <<>> ELSE InsConcat(n - 1) \o InsBytes(instructions[n])

\* C24: the instruction list built by the client scanner, each Copy resolved
\* against the reference and each Data taken verbatim, concatenates in order
\* to exactly the source; while the scan runs, the instructions followed by
\* the pending unmatched bytes are the source up to pos.
C24_ScannerRebuildsSource ==
  driver = "network" =>
    /\ cpc \in {"scan", "rest"} =>
         /\ pos <= Len(src)
         /\ InsConcat(Len(instructions)) \o unmatched = Slice(src, 0, pos)
    /\ cpc \in {"send", "done"} => InsConcat(Len(instructions)) = src
    /\ \A i \in 1..Len(instructions) :
         instructions[i].kind = "Copy" =>
           instructions[i].offset + instructions[i].length <= Len(dst0.bytes)

\* after a copy the loop ended by a slide: the last literal joins the pending
\* unmatched bytes and the remainder, a full window or more
C24_Witness ==
  /\ driver = "network" /\ cpc = "send" /\ block_size > 1
  /\ Len(instructions) >= 2
  /\ instructions[Len(instructions) - 1].kind = "Copy"
  /\ instructions[Len(instructions)].kind = "Data"
  /\ Len(instructions[Len(instructions)].data) >= block_size

\* the run goes through the scan loop: the reference exists and the source
\* has at least one window
DeltaPath == dst0.exists /\ Len(src) >= block_size
\* end of the region of the i-th write into the temporary file
WriteEnd(i) == writes[i].at + writes[i].len

\* C25: in the local scan 0 <= last_match <= offset <= |S| in every state;
\* the regions written to the temporary file are non-empty, start at 0, each
\* begins where the previous one ends (increasing order, pairwise disjoint)
\* and reach last_match during the scan and |S| at commit; a window never
\* starts inside a region already matched.
C25_ScanLoopInvariant ==
  (driver = "local" /\ lpc \in {"scan", "tail", "rename", "done"} /\ DeltaPath) =>
    /\ 0 <= last_match /\ last_match <= offset /\ offset <= Len(src)
    /\ \A i \in 1..Len(writes) :
         /\ writes[i].len > 0
         /\ writes[i].at = (IF i = 1 THEN 0 ELSE WriteEnd(i - 1))
         /\ writes[i].kind = "copy" =>
              (writes[i].len = block_size /\ WriteEnd(i) <= offset)
    /\ lpc \in {"scan", "tail"} =>
         (IF writes = <<>> THEN last_match = 0 ELSE WriteEnd(Len(writes)) = last_match)
    /\ lpc \in {"rename", "done"} =>
         (IF writes = <<>> THEN Len(src) = 0 ELSE WriteEnd(Len(writes)) = Len(src))

\* a committed run that wrote a literal, a copied block and a literal tail
C25_Witness ==
  /\ LocalDone /\ DeltaPath /\ block_size > 1
  /\ Len(writes) = 3
  /\ writes[1].kind = "literal" /\ writes[2].kind = "copy" /\ writes[3].kind = "literal"

\* the block of the reference that starts at offset from has the weak and the
\* strong checksum of the byte sequence win
Verified(from, win) ==
  LET hi == from + Len(win)
      blk == Slice(dst0.bytes, from, hi)
  IN  /\ hi <= Len(dst0.bytes)
      /\ calculate_weak_checksum(blk) = calculate_weak_checksum(win)
      /\ calculate_strong_checksum(blk) = calculate_strong_checksum(win)
      /\ blk = win

\* C26: a block of the reference is reused for a source window only when its
\* weak checksum and its strong digest are those of the window, and then its
\* bytes are the window's: a window that only collides on the weak checksum
\* is never copied, in the local scanner and in the network client.
C26_CopyOnlyVerified ==
  /\ driver = "local" =>
       \A i \in 1..Len(writes) :
         writes[i].kind = "copy" =>
           Verified(writes[i].from, Slice(src, writes[i].at, writes[i].at + writes[i].len))
  /\ driver = "network" =>
       \A i \in 1..Len(instructions) :
         instructions[i].kind = "Copy" =>
           Verified(instructions[i].offset,
                    Slice(src, InsStart(i), InsStart(i) + instructions[i].length))

\* the first window of the source has the weak checksum of a block with
\* other bytes and was sent as literal data; a later window was copied
C26_Witness ==
  /\ driver = "network" /\ cpc = "done" /\ Len(src) >= block_size
  /\ LET w0 == Slice(src, 0, block_size)
     IN  /\ \E k \in 1..Len(block_table) :
              /\ block_table[k].weak = calculate_weak_checksum(w0)
              /\ block_table[k].strong # calculate_strong_checksum(w0)
         /\ instructions[1].kind = "Data"
  /\ \E i \in 1..Len(instructions) : instructions[i].kind = "Copy"

\* number of blocks copied so far
CopyCount == Cardinality({i \in 1..Len(writes) : writes[i].kind = "copy"})
\* size of the trailing block of the reference when it is a short one, else 0
ShortTail == IF dst0.exists THEN Len(dst0.bytes) % block_size ELSE 0

\* C27: the short trailing block of the reference is in the index, but every
\* block the local scanner matches has size block_size: the slice copy never
\* panics on a length mismatch and reused_bytes is a multiple of block_size.
C27_ShortTailNeverMatched ==
  (driver = "local" /\ lpc \in {"scan", "tail", "rename", "done", "panic", "error"}
                    /\ DeltaPath) =>
    /\ lpc # "panic"
    /\ ShortTail > 0 =>
         /\ dst_blocks # <<>>
         /\ dst_blocks[Len(dst_blocks)].size = ShortTail
         /\ dst_blocks[Len(dst_blocks)].offset = Len(dst0.bytes) - ShortTail
    /\ \A i \in 1..Len(writes) :
         writes[i].kind = "copy" =>
           /\ writes[i].len = block_size
           /\ writes[i].from + block_size <= Len(dst0.bytes) - ShortTail
    /\ reused_bytes = block_size * CopyCount
    /\ reused_bytes % block_size = 0

\* the source ends with the very bytes of the reference's short trailing
\* block: they were written as a literal after a copied block
C27_Witness ==
  /\ LocalDone /\ DeltaPath /\ ShortTail > 0
  /\ Len(src) >= block_size + ShortTail
  /\ Slice(src, Len(src) - ShortTail, Len(src))
       = Slice(dst0.bytes, Len(dst0.bytes) - ShortTail, Len(dst0.bytes))
  /\ Len(writes) >= 2
  /\ writes[Len(writes) - 1].kind = "copy"
  /\ writes[Len(writes)] = Literal(Len(src) - ShortTail, ShortTail)

\* C28: at the start of every iteration of the scan loop, in the local
\* scanner and in the network client, the window buffer is
\* source[pos .. pos + block_size) and the weak value is the from-scratch
\* weak checksum of that window, after a fresh load and after any number of
\* one-byte rolls.
C28_ScannerState ==
  /\ (driver \in LocalDrivers /\ lpc = "scan") =>
       /\ offset + block_size <= Len(src)
       /\ window = Slice(src, offset, offset + block_size)
       /\ weak = calculate_weak_checksum(Slice(src, offset, offset + block_size))
  /\ (driver = "network" /\ cpc = "scan") =>
       /\ pos + block_size <= Len(src)
       /\ cwindow = Slice(src, pos, pos + block_size)
       /\ current_weak = calculate_weak_checksum(Slice(src, pos, pos + block_size))

\* a window of several bytes, loaded afresh after a match and then rolled,
\* the byte that left differing from the byte that came in
C28_Witness ==
  /\ driver = "local" /\ lpc = "scan" /\ block_size > 1
  /\ last_match > 0 /\ offset > last_match
  /\ src[offset] # src[offset + block_size]

\* sum of the sizes of the first n blocks of the signature list
RECURSIVE SizeSum(_)
SizeSum(n) == IF n = 0 THEN 0 ELSE SizeSum(n - 1) + dst_blocks[n].size

\* C29: for a file of size F and block_size >= 1 calculate_checksums returns
\* ceil(F / block_size) blocks covering [0, F) contiguously and exactly:
\* offsets start at 0, increase strictly and are the prefix sums of the
\* sizes, only the last block may be shorter than block_size, every block's
\* weak and strong values are those of its byte range, and an empty file
\* gives an empty list.
C29_SignatureBuilder ==
  (driver = "local" /\ src_kind = "file" /\ dst0.exists
                    /\ lpc \notin {"sync", "start"}) =>
    LET F == Len(dst0.bytes)
        n == Len(dst_blocks)
    IN  /\ n = (F + block_size - 1) \div block_size
        /\ SizeSum(n) = F
        /\ F = 0 => dst_blocks = <<>>
        /\ \A i \in 1..n :
             LET b == dst_blocks[i]
             IN  /\ b.offset = SizeSum(i - 1)
                 /\ (i > 1) => b.offset > dst_blocks[i - 1].offset
                 /\ b.size >= 1 /\ b.size <= block_size
                 /\ (i < n) => b.size = block_size
                 /\ b.offset + b.size <= F
                 /\ b.weak_checksum =
                      calculate_weak_checksum(Slice(dst0.bytes, b.offset, b.offset + b.size))
                 /\ b.strong_checksum =
                      calculate_strong_checksum(Slice(dst0.bytes, b.offset, b.offset + b.size))

\* the signatures of a file of two full blocks and a shorter third one
C29_Witness ==
  /\ driver = "local" /\ src_kind = "file" /\ dst0.exists
  /\ lpc \notin {"sync", "start"}
  /\ block_size > 1
  /\ Len(dst_blocks) = 3
  /\ dst_blocks[3].size < block_size

\* the temporary path of the destination entry q
TempPath(q) == Append(Parent(q), with_extension_tmp(q[Len(q)]))
\* the sync has to keep the entry at path q: the source tree has it, or
\* nothing is to be removed
MustPreserve(q) == stree[q].kind # "none" \/ ~delete_extraneous

\* C30: while a file of a directory sync is rebuilt, its temporary path is
\* another path than the target's and no entry the sync must preserve sits
\* at it, so the reference read for the copies keeps its bytes until the
\* rename.
C30_TemporaryDistinct ==
  (driver = "dir" /\ dpc = "file") =>
    /\ TempPath(dcall) # dcall
    /\ dtree[TempPath(dcall)].kind # "none" => ~MustPreserve(TempPath(dcall))
    /\ lpc \in {"scan", "tail", "rename"} => dst = dst0

\* C31: the client accepts every response of the signature phase the server
\* emits, NOBLK or any number of BLK lines followed by BLKEND, the lone
\* BLKEND of an existing empty destination included: once the response is
\* there the client never fails, and having read it goes on to the
\* instruction phase.
C31_ClientAcceptsSignatures ==
  (driver = "network" /\ s2c # <<>>) =>
    /\ cpc # "error"
    /\ cpc \in {"scan", "rest", "send", "done"} => ReadSignatures(s2c).ok

\* a frame of the instruction phase the protocol does not allow: unknown
\* command, missing or unparsable number, COPY without a reference or beyond
\* its end, DATA whose payload ends early
Malformed(f) ==
  IF f.cmd = "DONE" THEN f.args # <<>>
  ELSE IF f.cmd = "DATA"
  THEN f.args = <<>> \/ f.args[1] < 0 \/ Len(f.payload) < f.args[1]
  ELSE IF f.cmd = "COPY"
  THEN \/ Len(f.args) < 2
       \/ \E k \in 1..2 : f.args[k] < 0
       \/ ~dst0.exists
       \/ f.args[1] + f.args[2] > Len(dst0.bytes)
  ELSE TRUE

C33_ClientOkAfterCommit ==
  (driver = "network" /\ cpc = "done") =>
    /\ spc = "done"
    /\ sresult.set

SignatureAdvances(blocks) ==
  \A i \in 1..Len(blocks) :
    /\ blocks[i].size >= 1
    /\ blocks[i].offset = IF i = 1 THEN 0 ELSE blocks[i-1].offset + blocks[i-1].size

\* an iteration of a scan loop that stays in the loop moves the window
\* forward by at least one byte and keeps it inside the source
ScanAdvances ==
  /\ (lpc = "scan" /\ lpc' = "scan") =>
       \/ UNCHANGED <<offset, window, tmp, writes>>
       \/ offset' >= offset + 1 /\ offset' + block_size <= Len(src)
  /\ (cpc = "scan" /\ cpc' = "scan") =>
       \/ UNCHANGED <<pos, cwindow, unmatched, instructions>>
       \/ pos' >= pos + 1 /\ pos' + block_size <= Len(src)

\* a driver is building signatures or is inside its scan loop
InLoop == lpc \in {"start", "scan"} \/ cpc = "scan"

\* C35: for block_size >= 1 the signature loop and both scan loops
\* terminate: every signature block advances the offset by at least 1, every
\* scan iteration advances the window position by at least 1, and a driver
\* that entered a loop leaves it.
C35_LoopsTerminate ==
  /\ [](block_size >= 1 /\ lpc # "hang")
  /\ [](SignatureAdvances(dst_blocks) /\ SignatureAdvances(block_table))
  /\ [][ScanAdvances]_vars
  /\ []<>(~InLoop)

\* both scan loops ran several iterations, with matches and slides, over a
\* reference of several blocks
C35_Witness ==
  \/ /\ driver = "local" /\ lpc = "done" /\ Len(dst_blocks) >= 2
     /\ offset >= 3 /\ reused_bytes > 0 /\ reused_bytes < offset
  \/ /\ driver = "network" /\ cpc = "done" /\ Len(block_table) >= 2
     /\ pos >= 3 /\ Len(instructions) >= 2

\* sum over i in lo .. hi-1 (0-based) of data[i], modulo 2^16
RECURSIVE ByteSum(_, _, _)
ByteSum(data, lo, hi) ==
  IF hi <= lo THEN 0
  ELSE IF hi = lo + 1 THEN data[hi] % M16
  ELSE LET mid == (lo + hi) \div 2
       IN  (ByteSum(data, lo, mid) + ByteSum(data, mid, hi)) % M16

\* sum over i in lo .. hi-1 (0-based) of (n - i) * data[i], modulo 2^16
RECURSIVE WeightedSum(_, _, _, _)
WeightedSum(data, n, lo, hi) ==
  IF hi <= lo THEN 0
  ELSE IF hi = lo + 1 THEN ((n - lo) * data[hi]) % M16
  ELSE LET mid == (lo + hi) \div 2
       IN  (WeightedSum(data, n, lo, mid) + WeightedSum(data, n, mid, hi)) % M16

RollWindow == Slice(rdata, rk, rk + rn)

\* C36: calculate_weak_checksum(data) packs a = (sum of data[i]) mod 2^16
\* into the low half and b = (sum of (n - i) * data[i]) mod 2^16 into the
\* high half, for every window of the harness: the empty one (result 0),
\* those whose sums pass 2^16 and the one whose accumulator passes 2^32.
C36_WeakClosedForm ==
  driver = "roll" =>
    LET n == Len(RollWindow)
    IN  /\ calculate_weak_checksum(RollWindow) =
             <<ByteSum(RollWindow, 0, n), WeightedSum(RollWindow, n, 0, n)>>
        /\ n = 0 => calculate_weak_checksum(RollWindow) = U32(0)

\* the window has been rolled one byte along the long run of high bytes:
\* the 32-bit accumulator b, which never decreases as an integer, has a
\* smaller high half after the whole window than after all but its last ten
\* bytes
C36_Witness ==
  /\ driver = "roll" /\ rk = 1 /\ rn = WrapLen - 1
  /\ LET zero == <<U32(0), U32(0)>>
         full == WeakLoop(RollWindow, 0, rn, zero)
         part == WeakLoop(RollWindow, 0, rn - 10, zero)
     IN  /\ full[2][2] < part[2][2]
         /\ full[1][2] > 0

====
